---- MODULE Spec2Model ----
(***************************************************************************)
(* Model of app.py, the Streamlit debtor register ("App de Registro de     *)
(* Deudores").  Streamlit executes the script top to bottom on every user  *)
(* interaction: the top of the script reads DeudoresPrueba.xlsx and cleans *)
(* it into the data frame df, the two button handlers (new record, table   *)
(* save) change it and call save(), the totals section aggregates it and   *)
(* the last section writes df back to the spreadsheet.  st.rerun() aborts  *)
(* the run and starts the script again from the top.                       *)
(*                                                                         *)
(* Text is a tuple of one-character strings; a spreadsheet cell is a       *)
(* tagged record; a missing pandas value of Fecha or Valor (NaT, NaN) is   *)
(* the empty tuple and a present one a 1-tuple.                            *)
(***************************************************************************)
EXTENDS Integers, Sequences, FiniteSets, TLC

VARIABLES
    pc,         \* position of the script run: "load", "ui", "totals", "export"
    file,       \* DeudoresPrueba.xlsx on disk: [exists, rows]
    df,         \* the module-level data frame df of the current run
    saved,      \* the table most recently handed to save(): [called, data]
    token,      \* whether GITHUB_TOKEN is set in the environment
    filtro_cliente, \* the client filter under which the run's table save was made
    msgs,       \* st.error / st.success / st.info messages of the current run
    totales,    \* the per-client totals frame of the totals section
    gran_total  \* the grand total of the totals section: <<>> or <<n>>

vars == <<pc, file, df, saved, token, filtro_cliente, msgs, totales, gran_total>>

(***************************************************************************)
(* Bounds of the model.                                                    *)
(***************************************************************************)
MaxRows == 2        \* most rows of the start-up spreadsheet, and of df before an insert
MaxEdits == 1       \* most rows the user edits in the data editor before a table save
MaxLen == 4         \* longest raw client text of the normalization check

(***************************************************************************)
(* Text.                                                                   *)
(***************************************************************************)
Whitespace == {" "}

\* str.upper() on the characters the model uses.
UpperChar(c) ==
    CASE c = "a" -> "A"
      [] c = "n" -> "N"
      [] c = "s" -> "S"
      [] c = "i" -> "I"
      [] c = "r" -> "R"
      [] c = "u" -> "U"
      [] c = "e" -> "E"
      [] c = "l" -> "L"
      [] OTHER -> c

\* Mutant of Upper: the case is left as typed.
UpperAsTyped(s) == s

Upper(s) == [i \in 1..Len(s) |-> UpperChar(s[i])]

\* str.strip(): drop leading and trailing whitespace.
RECURSIVE LStrip(_)
LStrip(s) ==
    IF s # <<>> /\ Head(s) \in Whitespace THEN LStrip(Tail(s)) ELSE s

RECURSIVE RStrip(_)
RStrip(s) ==
    IF s # <<>> /\ s[Len(s)] \in Whitespace
    THEN RStrip(SubSeq(s, 1, Len(s) - 1))
    ELSE s

Strip(s) == RStrip(LStrip(s))

\* Mutant of NormCliente: upper-cased but not stripped.
NormClienteUnstripped(s) == Upper(s)

\* .strip().upper() / .str.strip().str.upper(): the client normalization
\* used at load, in the new-record form and in the table save.
NormCliente(s) == Upper(Strip(s))

\* Code points of the characters a normalized client can hold, and the
\* order Python gives str: lexicographic by code point.
Code(c) ==
    CASE c = " " -> 32
      [] c = "A" -> 65
      [] c = "N" -> 78
      [] c = "a" -> 97
      [] c = "n" -> 110

RECURSIVE StrLess(_, _)
StrLess(s, t) ==
    IF t = <<>> THEN FALSE
    ELSE IF s = <<>> THEN TRUE
    ELSE IF Head(s) = Head(t) THEN StrLess(Tail(s), Tail(t))
    ELSE Code(Head(s)) < Code(Head(t))

StrLeq(s, t) == s = t \/ StrLess(s, t)

(***************************************************************************)
(* Spreadsheet cells and what pandas reads from them.                      *)
(***************************************************************************)
EmptyCell == [k |-> "empty", n |-> 0, s |-> <<>>, b |-> FALSE]
NumCell(n) == [k |-> "num", n |-> n, s |-> <<>>, b |-> FALSE]
TextCell(s) == [k |-> "text", n |-> 0, s |-> s, b |-> FALSE]
BoolCell(b) == [k |-> "bool", n |-> 0, s |-> <<>>, b |-> b]
DateCell(d) == [k |-> "date", n |-> d, s |-> <<>>, b |-> FALSE]

Columns == {"Consecutivo", "Cliente", "Fecha", "Valor", "Pagado"}

\* Texts pd.read_excel reads as a missing value (its default na_values),
\* among the texts the model's characters can spell.
NaStrings == { <<>>, <<"N", "A">>, <<"n", "a", "n">>, <<"N", "a", "N">> }

\* pd.read_excel on one cell: an empty cell or an NA marker is NaN.
ReadCell(c) ==
    IF c.k = "text" /\ c.s \in NaStrings THEN EmptyCell ELSE c

\* pd.read_excel(FILE_PATH), or the empty frame when the file is absent.
ReadExcel(f) ==
    IF f.exists
    THEN [i \in 1..Len(f.rows) |-> [c \in Columns |-> ReadCell(f.rows[i][c])]]
    ELSE <<>>

\* str(x) of a value of the frame, for the values the model reads.  A
\* numeric column with a missing value is float64, any other holds ints.
StrOf(c, isFloat) ==
    CASE c.k = "empty" -> <<"n", "a", "n">>
      [] c.k = "text" -> c.s
      [] c.k = "bool" -> IF c.b THEN <<"T", "r", "u", "e">>
                                ELSE <<"F", "a", "l", "s", "e">>
      [] c.k = "num" /\ c.n \in {0, 1} ->
            IF isFloat
            THEN <<(IF c.n = 1 THEN "1" ELSE "0"), ".", "0">>
            ELSE <<(IF c.n = 1 THEN "1" ELSE "0")>>

\* Whether pandas reads column col of the raw frame as float64: only
\* numbers and missing values, and at least one missing value.
IsFloatColumn(raw, col) ==
    /\ \A i \in 1..Len(raw) : raw[i][col].k \in {"num", "empty"}
    /\ \E i \in 1..Len(raw) : raw[i][col].k = "empty"

(***************************************************************************)
(* The load-time cleaning pass (script top level, lines 61-104).           *)
(***************************************************************************)
\* df["Cliente"].astype(str).str.strip().str.upper()
CleanCliente(c) == NormCliente(StrOf(c, FALSE))

\* pd.to_datetime(..., errors="coerce").dt.date: a date, or NaT.  The texts
\* the model's characters can spell are not dates.
ToDate(c) ==
    CASE c.k = "date" -> <<c.n>>
      [] c.k = "empty" -> <<>>
      [] c.k = "text" -> <<>>

\* pd.to_numeric(..., errors="coerce"): a number, or NaN.  The texts the
\* model's characters can spell are not numbers.
ToNumeric(c) ==
    CASE c.k = "num" -> <<c.n>>
      [] c.k = "bool" -> <<(IF c.b THEN 1 ELSE 0)>>
      [] c.k = "empty" -> <<>>
      [] c.k = "text" -> <<>>

PaidTokens ==
    { <<"1">>, <<"T", "R", "U", "E">>, <<"P", "A", "G", "A", "D", "O">>,
      <<"S", "I">>, <<"S", "Iacute">>, <<"Y", "E", "S">> }

normalize_paid(x, isFloat) == Upper(StrOf(x, isFloat)) \in PaidTokens

\* Lines 66-91: the five columns converted in place.  Consecutivo is left
\* as read.
ConvertColumns(raw) ==
    [i \in 1..Len(raw) |->
        [Consecutivo |-> raw[i].Consecutivo,
         Cliente |-> CleanCliente(raw[i].Cliente),
         Fecha |-> ToDate(raw[i].Fecha),
         Valor |-> ToNumeric(raw[i].Valor),
         Pagado |-> normalize_paid(raw[i].Pagado,
                                   IsFloatColumn(raw, "Pagado"))]]

\* pd.isna on each column of a converted row: Cliente is a str and Pagado
\* a bool by now, so neither is ever missing.
RowAllNa(r) ==
    /\ r.Consecutivo.k = "empty"
    /\ FALSE    \* Cliente: str
    /\ r.Fecha = <<>>
    /\ r.Valor = <<>>
    /\ FALSE    \* Pagado: bool

RECURSIVE SelectRows(_, _)
SelectRows(s, keep) ==
    IF s = <<>> THEN <<>>
    ELSE IF keep[1]
         THEN <<Head(s)>> \o SelectRows(Tail(s), Tail(keep))
         ELSE SelectRows(Tail(s), Tail(keep))

\* df.dropna(how="all")
DropNaAll(rows) ==
    SelectRows(rows, [i \in 1..Len(rows) |-> ~RowAllNa(rows[i])])

\* Mutant of DropPaid: the paid rows are kept.
DropPaidKeepsAll(rows) == rows

\* df[df["Pagado"] != True]
DropPaid(rows) ==
    SelectRows(rows, [i \in 1..Len(rows) |-> rows[i].Pagado # TRUE])

\* df.sort_values(by="Cliente"): kind defaults to "quicksort", which is not
\* a stable sort, so rows with equal Cliente may come out in any order.
SortedPerms(rows) ==
    { p \in [1..Len(rows) -> 1..Len(rows)] :
        /\ \A i, j \in 1..Len(rows) : i # j => p[i] # p[j]
        /\ \A i, j \in 1..Len(rows) :
              i < j => StrLeq(rows[p[i]].Cliente, rows[p[j]].Cliente) }

SortValues(rows) ==
    { [i \in 1..Len(rows) |-> rows[p[i]]] : p \in SortedPerms(rows) }

\* reset_index(drop=True); df["Consecutivo"] = df.index + 1
Renumber(rows) ==
    [i \in 1..Len(rows) |->
        [Consecutivo |-> i,
         Cliente |-> rows[i].Cliente,
         Fecha |-> rows[i].Fecha,
         Valor |-> rows[i].Valor,
         Pagado |-> rows[i].Pagado]]

\* The frames the cleaning pass can produce from the spreadsheet.
CleanFrames(f) ==
    { Renumber(sorted) :
        sorted \in SortValues(DropPaid(DropNaAll(ConvertColumns(ReadExcel(f))))) }

(***************************************************************************)
(* save(data): data.to_excel(FILE_PATH) and upload_to_github.  The upload  *)
(* is modelled by its outcome, the message it shows.                       *)
(***************************************************************************)
\* DataFrame.to_excel(index=False): one cell per value, NaN and NaT empty.
ToExcel(data) ==
    [exists |-> TRUE,
     rows |-> [i \in 1..Len(data) |->
        [Consecutivo |-> NumCell(data[i].Consecutivo),
         Cliente |-> TextCell(data[i].Cliente),
         Fecha |-> IF data[i].Fecha = <<>> THEN EmptyCell
                   ELSE DateCell(data[i].Fecha[1]),
         Valor |-> IF data[i].Valor = <<>> THEN EmptyCell
                   ELSE NumCell(data[i].Valor[1]),
         Pagado |-> BoolCell(data[i].Pagado)]]]

MsgFaltaToken == "Falta el token de GitHub"
MsgSincronizado == "Archivo sincronizado automaticamente con GitHub"
MsgErrorSubir == "Error al subir archivo a GitHub"
MsgClienteObligatorio == "El nombre del cliente es obligatorio."
MsgRegistroGuardado == "Registro guardado exitosamente."
MsgCambiosGuardados == "Cambios guardados correctamente."
MsgNoHayDeudores == "No hay deudores activos."
MsgExcepcion == "uncaught exception"

\* upload_to_github: the messages it shows, given the status of the PUT.
UploadMsgs(putOk) ==
    IF ~token THEN {MsgFaltaToken}
    ELSE IF putOk THEN {MsgSincronizado}
    ELSE {MsgErrorSubir}

\* save(data), followed by the success message okMsg of the handler.
Save(data, putOk, okMsg) ==
    /\ file' = ToExcel(data)
    /\ saved' = [called |-> TRUE, data |-> data]
    /\ msgs' = msgs \cup UploadMsgs(putOk) \cup {okMsg}

(***************************************************************************)
(* The inputs the model draws.                                             *)
(***************************************************************************)
Hoy == <<1>>    \* date.today(), the only date the new-record form offers here

\* Texts typed into the "Cliente" box.
InputClientes ==
    { <<>>, <<" ">>, <<"a">>, <<" ", "n">> }

\* Amounts typed into "Valor (COP)": number_input has min_value=0.0.
InputValores == {2}

\* What the user does to one row of the data editor.
EditOps == {"keep", "pay", "rename", "revalue", "clear"}

\* The text and the amount an edited cell receives.
EditCliente == <<"a", " ">>
EditValor == <<2>>

\* Spreadsheet rows the start-up file is drawn from: a blank row, a plain
\* row, rows marked paid in text and as the number 1, a row with a
\* whitespace client and an unparseable date and amount, and a row with a
\* negative amount.
SampleRows ==
    { [Consecutivo |-> EmptyCell, Cliente |-> EmptyCell, Fecha |-> EmptyCell,
       Valor |-> EmptyCell, Pagado |-> EmptyCell],
      [Consecutivo |-> NumCell(1), Cliente |-> TextCell(<<" ", "n">>),
       Fecha |-> DateCell(1), Valor |-> NumCell(2), Pagado |-> BoolCell(FALSE)],
      [Consecutivo |-> NumCell(2), Cliente |-> TextCell(<<"a">>),
       Fecha |-> DateCell(1), Valor |-> NumCell(2),
       Pagado |-> TextCell(<<"s", "i">>)],
      [Consecutivo |-> NumCell(1), Cliente |-> TextCell(<<"a">>),
       Fecha |-> DateCell(1), Valor |-> NumCell(2), Pagado |-> NumCell(1)],
      [Consecutivo |-> NumCell(5), Cliente |-> TextCell(<<" ">>),
       Fecha |-> TextCell(<<"a">>), Valor |-> TextCell(<<"a">>),
       Pagado |-> EmptyCell],
      [Consecutivo |-> EmptyCell, Cliente |-> TextCell(<<"A">>),
       Fecha |-> EmptyCell, Valor |-> NumCell(-1), Pagado |-> NumCell(0)] }

RowSeqs(n) == UNION { [1..m -> SampleRows] : m \in 0..n }

InitFiles ==
    { [exists |-> FALSE, rows |-> <<>>] }
        \cup { [exists |-> TRUE, rows |-> r] : r \in RowSeqs(MaxRows) }

NotSaved == [called |-> FALSE, data |-> <<>>]

\* The first option of the filter selectbox.
Todos == [todos |-> TRUE, cliente |-> <<>>]

Init ==
    /\ pc = "load"
    /\ file \in InitFiles
    /\ df = <<>>
    /\ saved = NotSaved
    /\ token \in BOOLEAN
    /\ filtro_cliente = Todos
    /\ msgs = {}
    /\ totales = <<>>
    /\ gran_total = <<>>

(***************************************************************************)
(* The script run.                                                         *)
(***************************************************************************)
\* Lines 61-104: read the spreadsheet and clean it.  A new run starts with
\* no message on screen and nothing handed to save().
Load ==
    /\ pc = "load"
    /\ df' \in CleanFrames(file)
    /\ saved' = NotSaved
    /\ filtro_cliente' = Todos
    /\ msgs' = {}
    /\ totales' = <<>>
    /\ gran_total' = <<>>
    /\ pc' = "ui"
    /\ UNCHANGED <<file, token>>

\* Mutant of NewRow: the Consecutivo is len(df), not len(df) + 1.
NewRowOffByOne(rows, cliente, fecha, valor) ==
    [Consecutivo |-> Len(rows),
     Cliente |-> cliente,
     Fecha |-> fecha,
     Valor |-> <<valor>>,
     Pagado |-> FALSE]

\* Lines 147-153: the row of the new-record form.
NewRow(rows, cliente, fecha, valor) ==
    [Consecutivo |-> Len(rows) + 1,
     Cliente |-> cliente,
     Fecha |-> fecha,
     Valor |-> <<valor>>,
     Pagado |-> FALSE]

\* Lines 143-157: "Guardar nuevo registro" with the text raw in the Cliente
\* box.  An empty client shows an error and the run goes on; otherwise the
\* row is appended, saved, and st.rerun() restarts the script.
InsertButton(raw, fecha, valor, putOk) ==
    /\ pc = "ui"
    /\ LET cliente == NormCliente(raw)
           new_row == NewRow(df, cliente, fecha, valor)
       IN IF cliente = <<>>
          THEN /\ msgs' = msgs \cup {MsgClienteObligatorio}
               /\ pc' = "totals"
               /\ UNCHANGED <<file, df, saved>>
          ELSE /\ Len(df) < MaxRows
               /\ df' = Append(df, new_row)
               /\ Save(df', putOk, MsgRegistroGuardado)
               /\ pc' = "load"
    /\ UNCHANGED <<token, filtro_cliente, totales, gran_total>>

\* Lines 164-170: the rows of df the data editor shows under the client
\* filter ("Todos", or one of the clients of df).
Filtros ==
    {Todos} \cup { [todos |-> FALSE, cliente |-> df[i].Cliente] : i \in 1..Len(df) }

RECURSIVE Positions(_, _, _)
Positions(rows, filtro, i) ==
    IF i > Len(rows) THEN <<>>
    ELSE IF filtro.todos \/ rows[i].Cliente = filtro.cliente
         THEN <<i>> \o Positions(rows, filtro, i + 1)
         ELSE Positions(rows, filtro, i + 1)

\* One row of `edited`: the row of df_editable after the user's edit.  A
\* cleared text cell is None, here the Cliente [none |-> TRUE].
EditedRow(r, op) ==
    [Consecutivo |-> r.Consecutivo,
     Cliente |-> CASE op = "rename" -> [none |-> FALSE, s |-> EditCliente]
                   [] op = "clear" -> [none |-> TRUE, s |-> <<>>]
                   [] OTHER -> [none |-> FALSE, s |-> r.Cliente],
     Fecha |-> r.Fecha,
     Valor |-> IF op = "revalue" THEN EditValor ELSE r.Valor,
     Pagado |-> IF op = "pay" THEN TRUE ELSE r.Pagado]

\* df[df["Consecutivo"] == row["Consecutivo"]].index
IndexOf(rows, consecutivo) ==
    { j \in 1..Len(rows) : rows[j].Consecutivo = consecutivo }

Min(S) == CHOOSE x \in S : \A y \in S : x <= y

\* Mutant of ApplyEdits: the edited rows replace the whole table.
ApplyEditsReplaceAll(updated, orig, edited) ==
    [k \in 1..Len(edited) |->
        [Consecutivo |-> edited[k].Consecutivo,
         Cliente |-> NormCliente(edited[k].Cliente.s),
         Fecha |-> edited[k].Fecha,
         Valor |-> edited[k].Valor,
         Pagado |-> edited[k].Pagado]]

\* Lines 196-203: the loop over edited.iterrows(), writing each edited row
\* into df_updated at the first row of df with its Consecutivo.
RECURSIVE ApplyEdits(_, _, _)
ApplyEdits(updated, orig, edited) ==
    IF edited = <<>> THEN updated
    ELSE LET row == Head(edited)
             idx == IndexOf(orig, row.Consecutivo)
         IN IF idx = {}
            THEN ApplyEdits(updated, orig, Tail(edited))
            ELSE ApplyEdits(
                    [updated EXCEPT ![Min(idx)] =
                        [Consecutivo |-> @.Consecutivo,
                         Cliente |-> NormCliente(row.Cliente.s),
                         Fecha |-> row.Fecha,
                         Valor |-> row.Valor,
                         Pagado |-> row.Pagado]],
                    orig, Tail(edited))

\* Lines 193-212: "Guardar cambios de la tabla".  row["Cliente"].strip()
\* raises on a cleared cell and the run ends there; otherwise df_updated is
\* filtered, sorted, renumbered and saved, and st.rerun() restarts the
\* script.  df itself is not assigned.
TableSave(filtro, ops, putOk) ==
    /\ pc = "ui"
    /\ LET view == Positions(df, filtro, 1)
           edited == [k \in 1..Len(view) |-> EditedRow(df[view[k]], ops[k])]
       IN IF \E k \in 1..Len(edited) : edited[k].Cliente.none
          THEN /\ msgs' = msgs \cup {MsgExcepcion}
               /\ UNCHANGED <<file, saved>>
          ELSE \E sorted \in SortValues(DropPaid(ApplyEdits(df, df, edited))) :
                  Save(Renumber(sorted), putOk, MsgCambiosGuardados)
    /\ filtro_cliente' = filtro
    /\ pc' = "load"
    /\ UNCHANGED <<df, token, totales, gran_total>>

\* A run in which neither button was pressed.
NoButton ==
    /\ pc = "ui"
    /\ pc' = "totals"
    /\ UNCHANGED <<file, df, saved, token, filtro_cliente, msgs, totales, gran_total>>

\* Series.sum(): missing values are skipped.
RECURSIVE SumValor(_)
SumValor(rows) ==
    IF rows = <<>> THEN 0
    ELSE (IF Head(rows).Valor = <<>> THEN 0 ELSE Head(rows).Valor[1])
            + SumValor(Tail(rows))

\* Mutant of GroupRows: a group also takes the rows of smaller clients.
GroupRowsUpTo(rows, cliente) ==
    SelectRows(rows, [i \in 1..Len(rows) |-> StrLeq(rows[i].Cliente, cliente)])

\* The rows of a group.
GroupRows(rows, cliente) ==
    SelectRows(rows, [i \in 1..Len(rows) |-> rows[i].Cliente = cliente])

RECURSIVE SortedKeys(_)
SortedKeys(S) ==
    IF S = {} THEN <<>>
    ELSE LET m == CHOOSE x \in S : \A y \in S : StrLeq(x, y)
         IN <<m>> \o SortedKeys(S \ {m})

\* df.groupby("Cliente")["Valor"].sum().reset_index(): one row per client,
\* in ascending order of client.  Line 223 then only formats the sums for
\* display.
GroupBySum(rows) ==
    LET keys == SortedKeys({ rows[i].Cliente : i \in 1..Len(rows) })
    IN [g \in 1..Len(keys) |->
            [Cliente |-> keys[g], Valor |-> SumValor(GroupRows(rows, keys[g]))]]

\* Lines 219-229: the per-client totals and the grand total.
Totals ==
    /\ pc = "totals"
    /\ IF Len(df) = 0
       THEN /\ msgs' = msgs \cup {MsgNoHayDeudores}
            /\ UNCHANGED <<totales, gran_total>>
       ELSE /\ totales' = GroupBySum(df)
            /\ gran_total' = <<SumValor(df)>>
            /\ UNCHANGED msgs
    /\ pc' = "export"
    /\ UNCHANGED <<file, df, saved, token, filtro_cliente>>

\* Lines 268-269: df is written back to the spreadsheet; the run ends and
\* the next interaction starts a new one.
Export ==
    /\ pc = "export"
    /\ file' = ToExcel(df)
    /\ pc' = "load"
    /\ UNCHANGED <<df, saved, token, filtro_cliente, msgs, totales, gran_total>>

\* The outcomes of the PUT: it is only sent when the token is set.
PutResults == IF token THEN BOOLEAN ELSE {FALSE}

\* The edits of a view of n rows that touch at most MaxEdits of them.
EditSets(n) ==
    { ops \in [1..n -> EditOps] :
        Cardinality({ k \in 1..n : ops[k] # "keep" }) <= MaxEdits }

Insert ==
    \E raw \in InputClientes, valor \in InputValores, putOk \in PutResults :
        InsertButton(raw, Hoy, valor, putOk)

TableEdit ==
    \E filtro \in Filtros, putOk \in PutResults :
        \E ops \in EditSets(Len(Positions(df, filtro, 1))) :
            TableSave(filtro, ops, putOk)

Next ==
    \/ Load
    \/ Insert
    \/ TableEdit
    \/ NoButton
    \/ Totals
    \/ Export

Spec == Init /\ [][Next]_vars

(***************************************************************************)
(* The client normalization on its own: the start-up spreadsheet holds two *)
(* unpaid rows whose Cliente cells are texts over NormChars (a text that    *)
(* read_excel takes for a missing value is not a client text), and the run *)
(* loads them and computes the totals.                                     *)
(***************************************************************************)
NormChars == {"a", "A", " "}

Texts(n) == UNION { [1..m -> NormChars] : m \in 0..n }

NormRow(s) ==
    [Consecutivo |-> EmptyCell, Cliente |-> TextCell(s), Fecha |-> DateCell(1),
     Valor |-> NumCell(2), Pagado |-> BoolCell(FALSE)]

InitNorm ==
    /\ pc = "load"
    /\ \E s \in Texts(MaxLen) \ NaStrings, t \in Texts(MaxLen - 1) \ NaStrings :
          file = [exists |-> TRUE, rows |-> <<NormRow(s), NormRow(t)>>]
    /\ df = <<>>
    /\ saved = NotSaved
    /\ token = TRUE
    /\ filtro_cliente = Todos
    /\ msgs = {}
    /\ totales = <<>>
    /\ gran_total = <<>>

NextNorm == Load \/ NoButton \/ Totals

SpecNorm == InitNorm /\ [][NextNorm]_vars

(***************************************************************************)
(* Properties.                                                             *)
(***************************************************************************)
NoPaid(rows) == \A i \in 1..Len(rows) : rows[i].Pagado = FALSE

\* C1: after the cleaning pass, an insert or a table save, in any order,
\* neither df nor the table handed to save() holds a row with Pagado true.
PaidRemoval == NoPaid(df) /\ (saved.called => NoPaid(saved.data))

\* A table save in which a row ticked as paid was removed from the table
\* handed to save().
PaidRemovalWitness ==
    /\ saved.called
    /\ MsgCambiosGuardados \in msgs
    /\ Len(df) = 2
    /\ Len(saved.data) = 1

Dense(rows) ==
    \A k \in 1..Len(rows) :
        Cardinality({ i \in 1..Len(rows) : rows[i].Consecutivo = k }) = 1

\* C2: the Consecutivo values of df, and of every table handed to save(),
\* are exactly 1..N, each once.
SequenceDensity == Dense(df) /\ (saved.called => Dense(saved.data))

\* An insert into a non-empty frame has been saved.
SequenceDensityWitness ==
    /\ saved.called
    /\ MsgRegistroGuardado \in msgs
    /\ Len(saved.data) = 2

\* C3: every table handed to save() is in non-decreasing order of Cliente
\* and each row's Consecutivo is its position.
CanonicalOrdering ==
    saved.called =>
        /\ \A i, j \in 1..Len(saved.data) :
              i < j => StrLeq(saved.data[i].Cliente, saved.data[j].Cliente)
        /\ \A i \in 1..Len(saved.data) : saved.data[i].Consecutivo = i

\* A client text that is empty once trimmed.
Blank(raw) == \A i \in 1..Len(raw) : raw[i] \in Whitespace

\* C4: pressing "Guardar nuevo registro" with a client that is empty after
\* trimming shows the error and changes neither df nor the spreadsheet, and
\* save() is not called.
InsertValidation ==
    [][\A raw \in InputClientes, valor \in InputValores, putOk \in BOOLEAN :
          (Blank(raw) /\ InsertButton(raw, Hoy, valor, putOk)) =>
              /\ df' = df
              /\ file' = file
              /\ saved' = saved
              /\ ~saved'.called
              /\ MsgClienteObligatorio \in msgs'
              /\ MsgRegistroGuardado \notin msgs']_vars

\* A rejected insert on a non-empty frame.
InsertValidationWitness ==
    /\ pc = "totals"
    /\ MsgClienteObligatorio \in msgs
    /\ Len(df) > 0

\* The content of a row, its Consecutivo apart.
Content(r) == <<r.Cliente, r.Fecha, r.Valor, r.Pagado>>

Count(rows, c) == Cardinality({ j \in 1..Len(rows) : Content(rows[j]) = c })

\* The rows of df the filter hides from the data editor.
Omitted ==
    { i \in 1..Len(df) :
        ~filtro_cliente.todos /\ df[i].Cliente # filtro_cliente.cliente }

\* The state right after a table save: df is still the frame the editor
\* showed, saved.data the table written.
AfterTableSave == pc = "load" /\ saved.called /\ MsgCambiosGuardados \in msgs

\* C5 as stated: after a table save, no row of df that the filter hid from
\* the editor is left in the table written.
ReplaceAllDropsOmitted ==
    AfterTableSave => \A i \in Omitted : Count(saved.data, Content(df[i])) = 0

\* C5 as amended: after a table save, every row of df that the filter hid
\* from the editor is still in the table written, with its content
\* unchanged.
TableSaveKeepsOmitted ==
    AfterTableSave =>
        \A i \in Omitted :
            Count(saved.data, Content(df[i]))
                >= Cardinality({ j \in Omitted : Content(df[j]) = Content(df[i]) })

\* A table save under a client filter that hid a row.
TableSaveKeepsOmittedWitness == AfterTableSave /\ Omitted # {}

BlankRow(r) == \A c \in Columns : r[c].k = "empty"

\* C6: right after the cleaning pass, df holds no more rows than the
\* spreadsheet has rows that are not blank.
EmptyRowsDropped ==
    pc = "ui" =>
        Len(df) <= Cardinality({ i \in 1..Len(file.rows) : ~BlankRow(file.rows[i]) })

CaseEq(c, d) == UpperChar(c) = UpperChar(d)

\* s and t are the same text up to letter case, inside leading and
\* trailing whitespace.
SameUpToCaseAndPadding(s, t) ==
    \E a \in 0..Len(s), c \in 0..Len(t) :
        \E n \in 0..Len(s) - a :
            /\ n = 0 => (a = 0 /\ c = 0)
            /\ c + n <= Len(t)
            /\ \A i \in 1..a : s[i] \in Whitespace
            /\ \A i \in a + n + 1..Len(s) : s[i] \in Whitespace
            /\ \A i \in 1..c : t[i] \in Whitespace
            /\ \A i \in c + n + 1..Len(t) : t[i] \in Whitespace
            /\ \A i \in 1..n : CaseEq(s[a + i], t[c + i])

\* The words of a text: its maximal runs of non-whitespace, upper-cased.
RECURSIVE Words(_, _)
Words(s, word) ==
    IF s = <<>> THEN (IF word = <<>> THEN <<>> ELSE <<word>>)
    ELSE IF Head(s) \in Whitespace
         THEN (IF word = <<>> THEN <<>> ELSE <<word>>) \o Words(Tail(s), <<>>)
         ELSE Words(Tail(s), Append(word, UpperChar(Head(s))))

\* s and t are the same text up to letter case, leading and trailing
\* whitespace and the length of the whitespace runs inside.
SameUpToCaseAndSpacing(s, t) == Words(s, <<>>) = Words(t, <<>>)

RawCliente(i) == file.rows[i].Cliente.s

OneClient == df[1].Cliente = df[2].Cliente /\ Len(totales) = 1

\* The totals of a run that loaded two client texts.
NormDone == pc = "export" /\ Len(file.rows) = 2 /\ Len(df) = 2

RECURSIVE SumOver(_, _)
SumOver(S, f) ==
    IF S = {} THEN 0
    ELSE LET x == CHOOSE y \in S : TRUE IN f[x] + SumOver(S \ {x}, f)

\* The amount of row i of df, a missing one counting nothing.
Amounts == [i \in 1..Len(df) |-> IF df[i].Valor = <<>> THEN 0 ELSE df[i].Valor[1]]

Aggregated ==
    Len(df) > 0 =>
        /\ gran_total = <<SumOver(DOMAIN Amounts, Amounts)>>
        /\ SumOver(1..Len(totales), [g \in 1..Len(totales) |-> totales[g].Valor])
              = gran_total[1]
        /\ \A i \in 1..Len(df) :
              Cardinality({ g \in 1..Len(totales) :
                              totales[g].Cliente = df[i].Cliente }) = 1
        /\ \A g \in 1..Len(totales) :
              /\ \E i \in 1..Len(df) : df[i].Cliente = totales[g].Cliente
              /\ totales[g].Valor
                    = SumOver({ i \in 1..Len(df) : df[i].Cliente = totales[g].Cliente },
                              Amounts)

\* C8: the totals section leaves df as it is, and for a non-empty df the
\* subtotals add up to the grand total, the grand total is the sum of the
\* amounts of df, and every client of df has exactly one group.
AggregateCorrectness == [][pc = "totals" => (df' = df /\ Aggregated')]_vars

\* Totals of a frame with two rows of one client.
AggregateCorrectnessWitness ==
    /\ pc = "export"
    /\ Len(df) = 2
    /\ Len(totales) = 1
    /\ gran_total = <<4>>

\* C9: after the cleaning pass every row of df has an amount, and it is not
\* negative.
AmountNormalization ==
    \A i \in 1..Len(df) : df[i].Valor # <<>> /\ df[i].Valor[1] >= 0

\* C10: a run in which the upload failed shows no success message of the
\* insert or of the table save.
PersistFailureSurfaced ==
    (MsgFaltaToken \in msgs \/ MsgErrorSubir \in msgs) =>
        (MsgRegistroGuardado \notin msgs /\ MsgCambiosGuardados \notin msgs)

====
